---- MODULE Spec2Model ----
(***************************************************************************)
(* Model of TestRunner/dummy_project.py: class DummyProject, the harness    *)
(* around a template Xcode project that is generated lazily, patched for    *)
(* the SDK / test type, staged into a build products directory and driven   *)
(* through xcodebuild.                                                      *)
(*                                                                          *)
(* A path is a sequence of components and a component is the sequence of    *)
(* the dot-separated parts of a file name ('App.app' is <<"App","app">>),   *)
(* so that os.path.join, os.path.basename and str.split('.') are computed   *)
(* and not assumed.  The filesystem is the set of existing directories and  *)
(* the map of existing files to their content, with a mode per entry.       *)
(***************************************************************************)
EXTENDS Integers, Sequences, FiniteSets, TLC

VARIABLES self, fs, installed, genRuns, last

vars == <<self, fs, installed, genRuns, last>>

\* ------------------------------------------------------------------ bounds
\* Times the body of GenerateDummyProject may be entered (it is re-entered
\* only after a failed generation).
MaxGenRuns == 2
\* EnvironmentVariables / CommandLineArguments containers appended to a scheme.
MaxContainers == 2

\* --------------------------------------------------------------- constants
None == <<>>
NoError == "none"

DEFAULT_PERMS == 511
DUMMYPROJECT_DIR_NAME == <<"TestProject">>
DUMMYPROJECT_XCODEPROJ_NAME == <<"TestProject", "xcodeproj">>
DUMMYPROJECT_PBXPROJ_NAME == <<"project", "pbxproj">>
DUMMYPROJECT_XCTESTS_SCHEME == "TestProjectXctest"
DUMMYPROJECT_XCUITESTS_SCHEME == "TestProjectXcuitest"
SIGNAL_BUILD_FOR_TESTING_SUCCEED == "** TEST BUILD SUCCEEDED **"
XcodeVersionThreshold == 730
WildcardProfileName == "iOS Team Provisioning Profile: *"

IPHONESIMULATOR == "iphonesimulator"
IPHONEOS == "iphoneos"
XCTEST == "xctest"
XCUITEST == "xcuitest"

\* Modes of entries created by open(..., 'w+') and os.makedirs / os.mkdir
\* under the usual umask, before the chmod walk of generation.
CreatedFileMode == 420
CreatedDirMode == 493

\* ------------------------------------------------------------------ paths
Join(dir, comps) == dir \o comps
Basename(p) == IF p = None THEN <<>> ELSE p[Len(p)]
\* name.split('.')[0]
FirstDotPart(name) == IF name = <<>> THEN "" ELSE name[1]
IsPrefix(p, q) == Len(p) <= Len(q) /\ SubSeq(q, 1, Len(p)) = p
Relocate(src, dst, p) == dst \o SubSeq(p, Len(src) + 1, Len(p))
Ancestors(p) == {SubSeq(p, 1, n) : n \in 1..Len(p)}

\* --------------------------------------------------------------- filesystem
Exists(f, p) == p \in f.dirs \/ p \in DOMAIN f.files
Under(f, p) == {q \in f.dirs \cup DOMAIN f.files : IsPrefix(p, q)}

\* The value of F at x, with x evaluated once (a step of a handler reads the
\* state its predecessor left more than once).
Once(F(_), x) == CHOOSE r \in {F(v) : v \in {x}} : TRUE

\* A world w is the program state a handler threads through its statements:
\* self, the filesystem, the installed profiles, and the exception in flight
\* (err), which makes every later statement a no-op.
Raise(w, e) == [w EXCEPT !.err = e]

\* os.mkdir(p): fails when p exists or its parent does not.
Mkdir(world, p) ==
  LET Body(w) ==
        IF w.err # NoError THEN w
        ELSE IF Exists(w.fs, p) \/ (Len(p) > 1 /\ SubSeq(p, 1, Len(p) - 1) \notin w.fs.dirs)
             THEN Raise(w, "OSError")
        ELSE [w EXCEPT !.fs.dirs = @ \cup {p},
                       !.fs.mode = (p :> CreatedDirMode) @@ @]
  IN Once(Body, world)

\* os.makedirs(p): creates p and its missing ancestors; fails when p exists.
Makedirs(world, p) ==
  LET Body(w) ==
        IF w.err # NoError THEN w
        ELSE IF Exists(w.fs, p) THEN Raise(w, "OSError")
        ELSE LET new == Ancestors(p) \ w.fs.dirs
             IN [w EXCEPT !.fs.dirs = @ \cup new,
                          !.fs.mode = [q \in new |-> CreatedDirMode] @@ @]
  IN Once(Body, world)

\* open(p, 'w+').write(content): creates or truncates the file.
WriteFile(world, p, content) ==
  LET Body(w) ==
        IF w.err # NoError THEN w
        ELSE IF p \in w.fs.dirs \/ SubSeq(p, 1, Len(p) - 1) \notin w.fs.dirs
             THEN Raise(w, "IOError")
        ELSE [w EXCEPT !.fs.files = (p :> content) @@ @,
                       !.fs.mode = IF p \in DOMAIN w.fs.files THEN @
                                   ELSE (p :> CreatedFileMode) @@ @]
  IN Once(Body, world)

\* shutil.copytree(src, dst): dst must not exist; missing parents of dst are
\* created; the tree under src is copied with its modes (copy2 / copystat).
CopyTree(world, src, dst) ==
  LET Body(w) ==
        IF w.err # NoError THEN w
        ELSE IF src \notin w.fs.dirs \/ Exists(w.fs, dst) THEN Raise(w, "OSError")
        ELSE LET f == w.fs
                 parents == (Ancestors(dst) \ {dst}) \ f.dirs
                 cdirs == {Relocate(src, dst, p) : p \in {q \in f.dirs : IsPrefix(src, q)}}
                 cfiles == {Relocate(src, dst, p) : p \in {q \in DOMAIN f.files : IsPrefix(src, q)}}
                 Orig(q) == Relocate(dst, src, q)
             IN [w EXCEPT
                   !.fs.dirs = @ \cup parents \cup cdirs,
                   !.fs.files = [q \in cfiles |-> f.files[Orig(q)]] @@ @,
                   !.fs.mode = [q \in cdirs \cup cfiles |-> f.mode[Orig(q)]]
                               @@ [q \in parents |-> CreatedDirMode] @@ @]
  IN Once(Body, world)

\* shutil.rmtree(p): removes p and everything below it.
RmTree(world, p) ==
  LET Body(w) ==
        IF w.err # NoError THEN w
        ELSE IF p \notin w.fs.dirs THEN Raise(w, "OSError")
        ELSE LET keep(q) == ~IsPrefix(p, q)
             IN [w EXCEPT
                   !.fs.dirs = {q \in @ : keep(q)},
                   !.fs.files = [q \in {x \in DOMAIN @ : keep(x)} |-> @[q]],
                   !.fs.mode = [q \in {x \in DOMAIN @ : keep(x)} |-> @[q]]]
  IN Once(Body, world)

\* The os.walk / os.chmod loop: every directory and file below root (the
\* root itself is not chmod-ed) gets mode.
ChmodWalk(world, root, mode) ==
  LET Body(w) ==
        IF w.err # NoError THEN w
        ELSE [w EXCEPT !.fs.mode = [q \in DOMAIN @ |->
                           IF IsPrefix(root, q) /\ q # root THEN mode ELSE @[q]]]
  IN Once(Body, world)

\* -------------------------------------------------- external collaborators
\* A value stored in the descriptor: a literal text, or what a collaborator
\* reports for the bundle at path `of`.
Val(kind, of, text) == [kind |-> kind, of |-> of, text |-> text]
Literal(text) == Val("literal", None, text)
TemplateValue == Val("template", None, "")

\* bundle_util: what the bundle inspector reports for a bundle directory.
GetMinimumOSVersion(dir) == Val("MinimumOSVersion", dir, "")
GetBundleId(dir) == Val("BundleId", dir, "")
GetDevelopmentTeam(dir) == Val("DevelopmentTeam", dir, "")
GetCodesignIdentity(dir) == Val("CodesignIdentity", dir, "")

Data(text) == [kind |-> "data", text |-> text]

\* ------------------------------------------------------ template resources
BuildSettingKeys ==
  {"IPHONEOS_DEPLOYMENT_TARGET", "PRODUCT_BUNDLE_IDENTIFIER", "DEVELOPMENT_TEAM",
   "CODE_SIGN_IDENTITY", "PROVISIONING_PROFILE_SPECIFIER", "CODE_SIGNING_REQUIRED",
   "APP_UNDER_TEST_NAME", "XCUITEST_BUNDLE_NAME", "XCTEST_BUNDLE_NAME"}
SigningKeys ==
  {"PRODUCT_BUNDLE_IDENTIFIER", "DEVELOPMENT_TEAM", "CODE_SIGN_IDENTITY",
   "PROVISIONING_PROFILE_SPECIFIER", "CODE_SIGNING_REQUIRED"}
BuildConfigs ==
  {"TestProjectBuildConfig", "AppUnderTestBuildConfig", "XCTestBundleBuildConfig",
   "XCUITestBundleBuildConfig"}
Targets == {"AppUnderTestTarget", "XCTestBundleTarget", "XCUITestBundleTarget"}

\* TestProject.xcodeproj/project.pbxproj as shipped: every field the code
\* addresses holds whatever the template has there.
TemplatePbxproj ==
  [kind |-> "pbxproj",
   objects |-> [o \in BuildConfigs \cup Targets |->
      IF o \in BuildConfigs
      THEN [buildSettings |-> [k \in BuildSettingKeys |-> TemplateValue]]
      ELSE [name |-> TemplateValue, productName |-> TemplateValue]]]

\* A scheme as shipped: one TestAction element, with the template's own
\* children and no EnvironmentVariables / CommandLineArguments container.
TemplateScheme(scheme) ==
  [kind |-> "xcscheme", scheme |-> scheme,
   TestAction |-> [shouldUseLaunchSchemeArgsEnv |-> "YES",
                   children |-> <<[tag |-> "Testables", entries |-> {}, items |-> <<>>]>>]]

SchemeFileName(scheme) == <<scheme, "xcscheme">>
SchemesDir(xcodeproj) == Join(xcodeproj, <<<<"xcshareddata">>, <<"xcschemes">>>>)

\* _GetTestProject: the path it returns ...
TestProjectPath(work_dir) == Join(work_dir, <<<<"Resource">>, <<"TestProject">>>>)

\* ... and what it does to the filesystem: nothing when the path exists,
\* else the descriptor and both schemes are written from the package data.
GetTestProject(world, work_dir) ==
  LET Body(w) ==
        IF w.err # NoError THEN w
        ELSE IF Exists(w.fs, TestProjectPath(work_dir)) THEN w
        ELSE LET xcodeproj_path == Join(TestProjectPath(work_dir), <<DUMMYPROJECT_XCODEPROJ_NAME>>)
                 xcschemes_path == SchemesDir(xcodeproj_path)
                 w1 == Makedirs(w, xcodeproj_path)
                 w2 == WriteFile(w1, Join(xcodeproj_path, <<DUMMYPROJECT_PBXPROJ_NAME>>),
                                 TemplatePbxproj)
                 w3 == Makedirs(w2, xcschemes_path)
                 w4 == WriteFile(w3, Join(xcschemes_path,
                                          <<SchemeFileName(DUMMYPROJECT_XCTESTS_SCHEME)>>),
                                 TemplateScheme(DUMMYPROJECT_XCTESTS_SCHEME))
             IN WriteFile(w4, Join(xcschemes_path,
                                   <<SchemeFileName(DUMMYPROJECT_XCUITESTS_SCHEME)>>),
                          TemplateScheme(DUMMYPROJECT_XCUITESTS_SCHEME))
  IN Once(Body, world)

\* ---------------------------------------------------------------- plists
\* plist_util.Plist(path).GetPlistField('objects') needs the file.
PlistReadable(w, path) ==
  path # None /\ path \in DOMAIN w.fs.files /\ w.fs.files[path].kind = "pbxproj"

\* plist_util.Plist(path).SetPlistField('objects', objects): read, patch, rewrite.
SetPlistObjects(world, path, objects) ==
  LET Body(w) ==
        IF w.err # NoError THEN w
        ELSE IF ~PlistReadable(w, path) THEN Raise(w, "PlistError")
        ELSE [w EXCEPT !.fs.files[path].objects = objects]
  IN Once(Body, world)

SetBuildSetting(objects, config, key, value) ==
  [objects EXCEPT ![config].buildSettings[key] = value]

SetTargetNames(objects, target, value) ==
  [objects EXCEPT ![target].name = value, ![target].productName = value]

\* _SetIosDeploymentTarget
SetIosDeploymentTarget(world) ==
  LET Body(w) ==
        IF w.err # NoError THEN w
        ELSE IF ~PlistReadable(w, w.self.pbxproj_file_path) THEN Raise(w, "PlistError")
        ELSE SetPlistObjects(w, w.self.pbxproj_file_path,
               SetBuildSetting(w.fs.files[w.self.pbxproj_file_path].objects,
                               "TestProjectBuildConfig", "IPHONEOS_DEPLOYMENT_TARGET",
                               GetMinimumOSVersion(w.self.app_under_test_dir)))
  IN Once(Body, world)

\* provisioning_profile.ProvisiongProfile(<app>/embedded.mobileprovision, work_dir)
EmbeddedProvisionPath(s) ==
  Join(s.app_under_test_dir, <<<<"embedded", "mobileprovision">>>>)
ProvisionReadable(w) == EmbeddedProvisionPath(w.self) \in DOMAIN w.fs.files
ProvisionName(w) == w.fs.files[EmbeddedProvisionPath(w.self)].text
\* embedded_provision.Install()
InstallProvision(world) ==
  LET Body(w) ==
        IF w.err # NoError THEN w
        ELSE [w EXCEPT !.installed = @ \cup {ProvisionName(w)}]
  IN Once(Body, world)

\* ------------------------------------------------- signing / naming policy
\* Variant: the profile specifier is written for the wildcard profile too.
XcuitestSigning_AlwaysSpecifier(objects, s, profile_name) ==
  LET cfg == "XCUITestBundleBuildConfig"
      o1 == SetBuildSetting(objects, cfg, "PRODUCT_BUNDLE_IDENTIFIER",
                            GetBundleId(s.test_bundle_dir))
      o2 == SetBuildSetting(o1, cfg, "DEVELOPMENT_TEAM",
                            GetDevelopmentTeam(s.test_bundle_dir))
      o3 == SetBuildSetting(o2, cfg, "CODE_SIGN_IDENTITY",
                            IF profile_name = WildcardProfileName
                            THEN Literal("iPhone Developer")
                            ELSE GetCodesignIdentity(s.test_bundle_dir))
  IN SetBuildSetting(o3, cfg, "PROVISIONING_PROFILE_SPECIFIER", Literal(profile_name))

\* _SetPbxprojForXcuitest, the iphoneos branch: the test bundle's settings.
XcuitestSigning(objects, s, profile_name) ==
  LET cfg == "XCUITestBundleBuildConfig"
      o1 == SetBuildSetting(objects, cfg, "PRODUCT_BUNDLE_IDENTIFIER",
                            GetBundleId(s.test_bundle_dir))
      o2 == SetBuildSetting(o1, cfg, "DEVELOPMENT_TEAM",
                            GetDevelopmentTeam(s.test_bundle_dir))
  IN IF profile_name = WildcardProfileName
     THEN SetBuildSetting(o2, cfg, "CODE_SIGN_IDENTITY", Literal("iPhone Developer"))
     ELSE SetBuildSetting(
            SetBuildSetting(o2, cfg, "CODE_SIGN_IDENTITY",
                            GetCodesignIdentity(s.test_bundle_dir)),
            cfg, "PROVISIONING_PROFILE_SPECIFIER", Literal(profile_name))

\* _SetPbxprojForXcuitest, "Sets the app under test and test bundle".
XcuitestNaming(objects, s) ==
  LET app_under_test_name == Literal(FirstDotPart(Basename(s.app_under_test_dir)))
      test_bundle_name == Literal(FirstDotPart(Basename(s.test_bundle_dir)))
      o1 == SetTargetNames(objects, "AppUnderTestTarget", app_under_test_name)
      o2 == SetBuildSetting(o1, "TestProjectBuildConfig", "APP_UNDER_TEST_NAME",
                            app_under_test_name)
      o3 == SetTargetNames(o2, "XCUITestBundleTarget", test_bundle_name)
  IN SetBuildSetting(o3, "TestProjectBuildConfig", "XCUITEST_BUNDLE_NAME",
                     test_bundle_name)

SetPbxprojForXcuitest(world) ==
  LET Body(w) ==
        IF w.err # NoError THEN w
        ELSE IF ~PlistReadable(w, w.self.pbxproj_file_path) THEN Raise(w, "PlistError")
        ELSE LET objects == w.fs.files[w.self.pbxproj_file_path].objects
             IN IF w.self.sdk = IPHONEOS
                THEN IF ~ProvisionReadable(w) THEN Raise(w, "IOError")
                     ELSE SetPlistObjects(InstallProvision(w), w.self.pbxproj_file_path,
                            XcuitestNaming(XcuitestSigning(objects, w.self, ProvisionName(w)),
                                           w.self))
                ELSE SetPlistObjects(w, w.self.pbxproj_file_path,
                                     XcuitestNaming(objects, w.self))
  IN Once(Body, world)

\* Variant: the profile specifier is written on the test bundle's record too.
XctestSigning_SpecifierOnBoth(objects, s, profile_name) ==
  LET aut == "AppUnderTestBuildConfig"
      test == "XCTestBundleBuildConfig"
      o1 == SetBuildSetting(objects, aut, "CODE_SIGNING_REQUIRED", Literal("YES"))
      o2 == SetBuildSetting(o1, aut, "PRODUCT_BUNDLE_IDENTIFIER",
                            GetBundleId(s.app_under_test_dir))
  IN IF profile_name = WildcardProfileName
     THEN LET app_under_test_dev_team == GetDevelopmentTeam(s.app_under_test_dir)
              o3 == SetBuildSetting(o2, aut, "CODE_SIGN_IDENTITY",
                                    Literal("iPhone Developer"))
              o4 == SetBuildSetting(o3, test, "CODE_SIGN_IDENTITY",
                                    Literal("iPhone Developer"))
              o5 == SetBuildSetting(o4, aut, "DEVELOPMENT_TEAM", app_under_test_dev_team)
          IN SetBuildSetting(o5, test, "DEVELOPMENT_TEAM", app_under_test_dev_team)
     ELSE LET app_under_test_sign_identity == GetCodesignIdentity(s.app_under_test_dir)
              o3 == SetBuildSetting(o2, aut, "CODE_SIGN_IDENTITY",
                                    app_under_test_sign_identity)
              o4 == SetBuildSetting(o3, test, "CODE_SIGN_IDENTITY",
                                    app_under_test_sign_identity)
              o5 == SetBuildSetting(o4, aut, "PROVISIONING_PROFILE_SPECIFIER",
                                    Literal(profile_name))
          IN SetBuildSetting(o5, test, "PROVISIONING_PROFILE_SPECIFIER",
                             Literal(profile_name))

\* _SetPbxprojForXctest, the iphoneos branch: the app's and the test bundle's
\* settings.
XctestSigning(objects, s, profile_name) ==
  LET aut == "AppUnderTestBuildConfig"
      test == "XCTestBundleBuildConfig"
      o1 == SetBuildSetting(objects, aut, "CODE_SIGNING_REQUIRED", Literal("YES"))
      o2 == SetBuildSetting(o1, aut, "PRODUCT_BUNDLE_IDENTIFIER",
                            GetBundleId(s.app_under_test_dir))
  IN IF profile_name = WildcardProfileName
     THEN LET app_under_test_dev_team == GetDevelopmentTeam(s.app_under_test_dir)
              o3 == SetBuildSetting(o2, aut, "CODE_SIGN_IDENTITY",
                                    Literal("iPhone Developer"))
              o4 == SetBuildSetting(o3, test, "CODE_SIGN_IDENTITY",
                                    Literal("iPhone Developer"))
              o5 == SetBuildSetting(o4, aut, "DEVELOPMENT_TEAM", app_under_test_dev_team)
          IN SetBuildSetting(o5, test, "DEVELOPMENT_TEAM", app_under_test_dev_team)
     ELSE LET app_under_test_sign_identity == GetCodesignIdentity(s.app_under_test_dir)
              o3 == SetBuildSetting(o2, aut, "CODE_SIGN_IDENTITY",
                                    app_under_test_sign_identity)
              o4 == SetBuildSetting(o3, test, "CODE_SIGN_IDENTITY",
                                    app_under_test_sign_identity)
          IN SetBuildSetting(o4, aut, "PROVISIONING_PROFILE_SPECIFIER",
                             Literal(profile_name))

\* _SetPbxprojForXctest, "Sets the app under test and test bundle".
XctestNaming(objects, s) ==
  LET app_under_test_name == Literal(FirstDotPart(Basename(s.app_under_test_dir)))
      test_bundle_name == Literal(FirstDotPart(Basename(s.test_bundle_dir)))
      o1 == SetTargetNames(objects, "AppUnderTestTarget", app_under_test_name)
      o2 == SetBuildSetting(o1, "TestProjectBuildConfig", "APP_UNDER_TEST_NAME",
                            app_under_test_name)
      o3 == SetTargetNames(o2, "XCTestBundleTarget", test_bundle_name)
  IN SetBuildSetting(o3, "TestProjectBuildConfig", "XCTEST_BUNDLE_NAME",
                     test_bundle_name)

\* Variant: the signing branch is taken for every SDK.
SetPbxprojForXctest_IgnoresSdk(world) ==
  LET Body(w) ==
        IF w.err # NoError THEN w
        ELSE IF ~PlistReadable(w, w.self.pbxproj_file_path) THEN Raise(w, "PlistError")
        ELSE IF ~ProvisionReadable(w) THEN Raise(w, "IOError")
        ELSE SetPlistObjects(InstallProvision(w), w.self.pbxproj_file_path,
               XctestNaming(XctestSigning(w.fs.files[w.self.pbxproj_file_path].objects,
                                          w.self, ProvisionName(w)),
                            w.self))
  IN Once(Body, world)

SetPbxprojForXctest(world) ==
  LET Body(w) ==
        IF w.err # NoError THEN w
        ELSE IF ~PlistReadable(w, w.self.pbxproj_file_path) THEN Raise(w, "PlistError")
        ELSE LET objects == w.fs.files[w.self.pbxproj_file_path].objects
             IN IF w.self.sdk = IPHONEOS
                THEN IF ~ProvisionReadable(w) THEN Raise(w, "IOError")
                     ELSE SetPlistObjects(InstallProvision(w), w.self.pbxproj_file_path,
                            XctestNaming(XctestSigning(objects, w.self, ProvisionName(w)),
                                         w.self))
                ELSE SetPlistObjects(w, w.self.pbxproj_file_path,
                                     XctestNaming(objects, w.self))
  IN Once(Body, world)

\* ------------------------------------------------------------- generation
\* tempfile.mkdtemp(): a directory that did not exist.
TempDir == <<<<"tmp">>, <<"tmpdir0">>>>

\* GenerateDummyProject, lines 197-202: the working directory.
ResolveWorkDir(world) ==
  LET Allocated(w) ==
        IF w.err # NoError THEN w
        ELSE [w EXCEPT !.self.work_dir = TempDir, !.self.delete_work_dir = TRUE]
      Body(w) ==
        IF w.err # NoError THEN w
        ELSE IF w.self.work_dir # None
             THEN IF ~Exists(w.fs, w.self.work_dir) THEN Mkdir(w, w.self.work_dir) ELSE w
        ELSE Once(Allocated, Makedirs(w, TempDir))
  IN Once(Body, world)

\* lines 203-205: the template is copied to <work_dir>/TestProject.
CopyTemplate(world) ==
  LET Body(w) ==
        IF w.err # NoError THEN w
        ELSE LET dummy_project_path == Join(w.self.work_dir, <<DUMMYPROJECT_DIR_NAME>>)
             IN CopyTree(GetTestProject([w EXCEPT !.self.dummy_project_path =
                                                      dummy_project_path],
                                        w.self.work_dir),
                         TestProjectPath(w.self.work_dir), dummy_project_path)
  IN Once(Body, world)

\* lines 206-214: the chmod walk, then the descriptor paths.
ChmodAndResolvePaths(world) ==
  LET Paths(w) ==
        IF w.err # NoError THEN w
        ELSE [w EXCEPT
                !.self.xcodeproj_dir_path =
                   Join(w.self.dummy_project_path, <<DUMMYPROJECT_XCODEPROJ_NAME>>),
                !.self.pbxproj_file_path =
                   Join(w.self.dummy_project_path,
                        <<DUMMYPROJECT_XCODEPROJ_NAME, DUMMYPROJECT_PBXPROJ_NAME>>)]
      Body(w) ==
        IF w.err # NoError THEN w
        ELSE Once(Paths, ChmodWalk(w, w.self.dummy_project_path, DEFAULT_PERMS))
  IN Once(Body, world)

\* lines 222-225: the patch for the test type.
SetPbxprojForTestType(world) ==
  LET Body(w) ==
        IF w.err # NoError THEN w
        ELSE IF w.self.test_type = XCUITEST THEN SetPbxprojForXcuitest(w)
        ELSE IF w.self.test_type = XCTEST THEN SetPbxprojForXctest(w)
        ELSE w
  IN Once(Body, world)

\* line 227
MarkGenerated(world) ==
  LET Body(w) ==
        IF w.err # NoError THEN w
        ELSE [w EXCEPT !.self.is_dummy_project_generated = TRUE]
  IN Once(Body, world)

\* The body of GenerateDummyProject, past the early return; genRuns counts
\* how often it is entered.
GenerationBody(world) ==
  LET Body(w) ==
        MarkGenerated(
          SetPbxprojForTestType(
            SetIosDeploymentTarget(
              ChmodAndResolvePaths(
                CopyTemplate(
                  ResolveWorkDir([w EXCEPT !.genRuns = @ + 1]))))))
  IN Once(Body, world)

\* Variant: the is-generated flag is not consulted.
GenerateDummyProject_NoFlagCheck(world) ==
  LET Body(w) == IF w.err # NoError THEN w ELSE GenerationBody(w)
  IN Once(Body, world)

GenerateDummyProject(world) ==
  LET Body(w) ==
        IF w.err # NoError THEN w
        ELSE IF w.self.is_dummy_project_generated THEN w
        ELSE GenerationBody(w)
  IN Once(Body, world)

\* The test_scheme_path property.
TestSchemePath(s) ==
  Join(SchemesDir(s.xcodeproj_dir_path), <<SchemeFileName(s.test_scheme)>>)

\* Variant: the working directory is removed whoever owns it.
Close_IgnoresOwnership(world) ==
  LET Body(w) ==
        IF w.self.work_dir # None /\ Exists(w.fs, w.self.work_dir)
        THEN RmTree(w, w.self.work_dir)
        ELSE w
  IN Once(Body, world)

Close(world) ==
  LET Body(w) ==
        IF w.err # NoError THEN w
        ELSE IF w.self.delete_work_dir /\ Exists(w.fs, w.self.work_dir)
             THEN RmTree(w, w.self.work_dir)
        ELSE w
  IN Once(Body, world)

\* ---------------------------------------------------------------- staging
\* Variant: an existing entry is replaced by a fresh copy.
StageBundle_Overwrites(world, src, built_products_dir) ==
  LET Body(w) ==
        IF w.err # NoError THEN w
        ELSE IF Join(built_products_dir, <<Basename(src)>>) \in w.fs.dirs
             THEN CopyTree(RmTree(w, Join(built_products_dir, <<Basename(src)>>)),
                           src, Join(built_products_dir, <<Basename(src)>>))
        ELSE CopyTree(w, src, Join(built_products_dir, <<Basename(src)>>))
  IN Once(Body, world)

\* One `if not os.path.exists(dst): shutil.copytree(src, dst)` of
\* _PrepareBuildProductsDir, dst being <built_products_dir>/<basename of src>.
StageBundle(world, src, built_products_dir) ==
  LET Body(w) ==
        IF w.err # NoError THEN w
        ELSE IF ~Exists(w.fs, Join(built_products_dir, <<Basename(src)>>))
             THEN CopyTree(w, src, Join(built_products_dir, <<Basename(src)>>))
        ELSE w
  IN Once(Body, world)

\* _PrepareBuildProductsDir
PrepareBuildProductsDir(world, built_products_dir) ==
  LET Body(w) ==
        StageBundle(StageBundle(w, w.self.app_under_test_dir, built_products_dir),
                    w.self.test_bundle_dir, built_products_dir)
  IN Once(Body, world)

\* ------------------------------------------------------- build / run test
\* `marker in output`, the output taken line by line.
Contains(output, marker) == \E i \in 1..Len(output) : output[i] = marker

\* subprocess.check_output followed by the success-marker test.
CheckBuildOutput(world, exit, output) ==
  LET Body(w) ==
        IF w.err # NoError THEN w
        ELSE IF exit # 0
             THEN [w EXCEPT !.err = "CalledProcessError", !.errOutput = output,
                            !.subprocess = TRUE]
        ELSE IF ~Contains(output, SIGNAL_BUILD_FOR_TESTING_SUCCEED)
             THEN [w EXCEPT !.err = "BuildFailureError", !.errOutput = output,
                            !.subprocess = TRUE]
        ELSE [w EXCEPT !.subprocess = TRUE]
  IN Once(Body, world)

BuildForTesting(world, built_products_dir, exit, output) ==
  CheckBuildOutput(
    PrepareBuildProductsDir(GenerateDummyProject(world), built_products_dir),
    exit, output)

\* RunXcTest, lines 162-169: the PlugIns folder of the app under test.
CopyTestBundleToPlugIns(world) ==
  LET TestBundle(w) ==
        IF w.err # NoError THEN w
        ELSE LET test_bundle_under_plugin_path ==
                   Join(w.self.app_under_test_dir,
                        <<<<"PlugIns">>, Basename(w.self.test_bundle_dir)>>)
             IN IF ~Exists(w.fs, test_bundle_under_plugin_path)
                THEN CopyTree(w, w.self.test_bundle_dir, test_bundle_under_plugin_path)
                ELSE w
      Body(w) ==
        IF w.err # NoError THEN w
        ELSE LET app_under_test_plugin_path ==
                   Join(w.self.app_under_test_dir, <<<<"PlugIns">>>>)
             IN Once(TestBundle,
                     IF ~Exists(w.fs, app_under_test_plugin_path)
                     THEN Mkdir(w, app_under_test_plugin_path) ELSE w)
  IN Once(Body, world)

\* RunXcTest, line 161: "In Xcode 7.3+, the folder structure ... is changed."
PreparePlugIns(world, version) ==
  IF version >= XcodeVersionThreshold THEN CopyTestBundleToPlugIns(world) ELSE world

\* XcodebuildTestExecutor(command, ...).Execute()
Execute(world) ==
  LET Body(w) == IF w.err # NoError THEN w ELSE [w EXCEPT !.executed = TRUE]
  IN Once(Body, world)

\* Variant: the test type is checked after the project was generated.
RunXcTest_ChecksLate(world, built_products_dir, version) ==
  LET Checked(w) ==
        IF w.err # NoError THEN w
        ELSE IF w.self.test_type # XCTEST THEN Raise(w, "IllegalArgumentError")
        ELSE Execute(PrepareBuildProductsDir(PreparePlugIns(w, version),
                                             built_products_dir))
  IN Once(Checked, GenerateDummyProject(world))

RunXcTest(world, built_products_dir, version) ==
  LET Body(w) ==
        IF w.self.test_type # XCTEST THEN Raise(w, "IllegalArgumentError")
        ELSE Execute(
               PrepareBuildProductsDir(
                 PreparePlugIns(GenerateDummyProject(w), version), built_products_dir))
  IN Once(Body, world)

\* --------------------------------------------------------- scheme mutation
EnvironmentVariables(env_vars) ==
  [tag |-> "EnvironmentVariables",
   entries |-> {[tag |-> "EnvironmentVariable", key |-> k, value |-> env_vars[k],
                 isEnabled |-> "YES"] : k \in DOMAIN env_vars},
   items |-> <<>>]

CommandLineArguments(args) ==
  [tag |-> "CommandLineArguments",
   entries |-> {},
   items |-> [i \in 1..Len(args) |->
                [tag |-> "CommandLineArgument", argument |-> args[i], isEnabled |-> "YES"]]]

\* Variant: a new container replaces the containers of earlier calls.
AppendToTestAction_Replaces(world, element) ==
  LET Body(w) ==
        IF w.err # NoError THEN w
        ELSE LET scheme_path == TestSchemePath(w.self)
             IN IF scheme_path \notin DOMAIN w.fs.files THEN Raise(w, "IOError")
                ELSE [w EXCEPT
                        !.fs.files[scheme_path].TestAction.shouldUseLaunchSchemeArgsEnv = "NO",
                        !.fs.files[scheme_path].TestAction.children =
                           Append(SelectSeq(@, LAMBDA e : e.tag = "Testables"), element)]
  IN Once(Body, world)

\* ET.parse(scheme_path) ... scheme_tree.write(scheme_path)
AppendToTestAction(world, element) ==
  LET Body(w) ==
        IF w.err # NoError THEN w
        ELSE LET scheme_path == TestSchemePath(w.self)
             IN IF scheme_path \notin DOMAIN w.fs.files THEN Raise(w, "IOError")
                ELSE [w EXCEPT
                        !.fs.files[scheme_path].TestAction.shouldUseLaunchSchemeArgsEnv = "NO",
                        !.fs.files[scheme_path].TestAction.children = Append(@, element)]
  IN Once(Body, world)

\* Variant: no early return on an empty map.
SetEnvVars_NoEmptyCheck(world, env_vars) ==
  AppendToTestAction(GenerateDummyProject(world), EnvironmentVariables(env_vars))

SetEnvVars(world, env_vars) ==
  IF DOMAIN env_vars = {} THEN world
  ELSE AppendToTestAction(GenerateDummyProject(world), EnvironmentVariables(env_vars))

SetArgs(world, args) ==
  IF args = <<>> THEN world
  ELSE AppendToTestAction(GenerateDummyProject(world), CommandLineArguments(args))

\* ------------------------------------------------------------ construction
\* __init__ (after _ValidateArguments accepted sdk and test_type).
Construct(app_under_test_dir, test_bundle_dir, sdk, test_type, work_dir) ==
  [app_under_test_dir |-> app_under_test_dir,
   test_bundle_dir |-> test_bundle_dir,
   sdk |-> sdk,
   test_type |-> test_type,
   work_dir |-> IF work_dir # None THEN Join(work_dir, <<<<"dummy_project">>>>) ELSE None,
   dummy_project_path |-> None,
   xcodeproj_dir_path |-> None,
   pbxproj_file_path |-> None,
   is_dummy_project_generated |-> FALSE,
   delete_work_dir |-> FALSE,
   test_scheme |-> IF test_type = XCTEST THEN DUMMYPROJECT_XCTESTS_SCHEME
                   ELSE DUMMYPROJECT_XCUITESTS_SCHEME]

SUPPORTED_SDKS == {IPHONESIMULATOR, IPHONEOS}
SUPPORTED_TEST_TYPES == {XCTEST, XCUITEST}

\* ------------------------------------------------- the inputs that are drawn
AppDir == <<<<"in">>, <<"App", "app">>>>
TestBundleDir == <<<<"in">>, <<"AppTests", "xctest">>>>
CallerDir == <<<<"w">>>>
CallerFile == Join(CallerDir, <<<<"keep", "txt">>>>)
CallerWorkDir == Join(CallerDir, <<<<"dummy_project">>>>)
\* How the caller's directory looks at construction: "auto" passes no
\* work_dir; "fresh" passes one without a dummy_project entry; "existing" has
\* dummy_project with a file of the caller's in it; "stale" also holds a
\* TestProject left there earlier.
WorkDirKinds == {"auto", "fresh", "existing", "stale"}
ProfileNames == {WildcardProfileName, "AdHoc Profile"}
OutDirs == {<<<<"out">>>>, <<<<"prebuilt">>>>}
PrebuiltApp == Join(<<<<"prebuilt">>>>, <<Basename(AppDir)>>)
XcodeVersions == {XcodeVersionThreshold - 1, XcodeVersionThreshold}
\* Captured xcodebuild output, line by line: without and with the marker.
Outputs ==
  {<<"error: build failed">>, <<"note: using new build system", SIGNAL_BUILD_FOR_TESTING_SUCCEED>>}
ExitStatuses == {0, 1}
NoEnvVars == [k \in {} |-> ""]
EnvInputs == {NoEnvVars, ("A" :> "1") @@ ("B" :> "2")}
ArgInputs == {<<>>, <<"-a", "-a">>}

InfoPlist == <<"Info", "plist">>

InitialDirs(kind) ==
  {<<<<"in">>>>, AppDir, TestBundleDir, <<<<"out">>>>, <<<<"prebuilt">>>>, PrebuiltApp}
  \cup (IF kind = "auto" THEN {} ELSE {CallerDir})
  \cup (IF kind \in {"existing", "stale"} THEN {CallerWorkDir} ELSE {})
  \cup (IF kind = "stale" THEN {Join(CallerWorkDir, <<DUMMYPROJECT_DIR_NAME>>)} ELSE {})

InitialFiles(kind, profile) ==
  (Join(AppDir, <<InfoPlist>>) :> Data("app"))
  @@ (Join(TestBundleDir, <<InfoPlist>>) :> Data("test"))
  @@ (Join(PrebuiltApp, <<InfoPlist>>) :> Data("prebuilt"))
  @@ (Join(AppDir, <<<<"embedded", "mobileprovision">>>>) :> Data(profile))
  @@ (IF kind = "auto" THEN <<>> ELSE (CallerFile :> Data("caller")))
  @@ (IF kind \in {"existing", "stale"}
      THEN (Join(CallerWorkDir, <<<<"keep", "txt">>>>) :> Data("caller"))
      ELSE <<>>)

InitialFs(kind, profile) ==
  LET d == InitialDirs(kind)
      f == InitialFiles(kind, profile)
  IN [dirs |-> d, files |-> f,
      mode |-> [p \in d |-> CreatedDirMode] @@ [p \in DOMAIN f |-> CreatedFileMode]]

NoCall ==
  [op |-> "none", err |-> NoError, errOutput |-> <<>>, executed |-> FALSE,
   subprocess |-> FALSE, dir |-> None, exit |-> 0, output |-> <<>>,
   env_vars |-> NoEnvVars, args |-> <<>>, version |-> 0]

Init ==
  \E kind \in WorkDirKinds, sdk \in SUPPORTED_SDKS, test_type \in SUPPORTED_TEST_TYPES,
     profile \in ProfileNames :
    /\ sdk = IPHONESIMULATOR => profile = "AdHoc Profile"
    /\ self = Construct(AppDir, TestBundleDir, sdk, test_type,
                        IF kind = "auto" THEN None ELSE CallerDir)
    /\ fs = InitialFs(kind, profile)
    /\ installed = {}
    /\ genRuns = 0
    /\ last = NoCall

\* ---------------------------------------------------------------- actions
World ==
  [self |-> self, fs |-> fs, installed |-> installed, genRuns |-> genRuns,
   err |-> NoError, errOutput |-> <<>>, executed |-> FALSE, subprocess |-> FALSE]

Commit(w, call) ==
  /\ self' = w.self
  /\ fs' = w.fs
  /\ installed' = w.installed
  /\ genRuns' = w.genRuns
  /\ last' = [call EXCEPT !.err = w.err, !.errOutput = w.errOutput,
                          !.executed = w.executed, !.subprocess = w.subprocess]

\* The model stops re-entering a generation that keeps failing.
MayGenerate == self.is_dummy_project_generated \/ genRuns < MaxGenRuns

SchemeContainers(f, s) ==
  IF s.xcodeproj_dir_path # None /\ TestSchemePath(s) \in DOMAIN f.files
  THEN SelectSeq(f.files[TestSchemePath(s)].TestAction.children,
                 LAMBDA e : e.tag \in {"EnvironmentVariables", "CommandLineArguments"})
  ELSE <<>>

MayAppend == Len(SchemeContainers(fs, self)) < MaxContainers

GenerateDummyProjectCall ==
  /\ MayGenerate
  /\ \E w \in {GenerateDummyProject(World)} :
       Commit(w, [NoCall EXCEPT !.op = "GenerateDummyProject"])

BuildForTestingCall ==
  \E d \in OutDirs, exit \in ExitStatuses, output \in Outputs :
    /\ MayGenerate
    /\ \E w \in {BuildForTesting(World, d, exit, output)} :
         Commit(w, [NoCall EXCEPT !.op = "BuildForTesting", !.dir = d, !.exit = exit,
                                  !.output = output])

RunXcTestCall ==
  \E d \in OutDirs, version \in XcodeVersions :
    /\ self.test_type = XCTEST => MayGenerate
    /\ \E w \in {RunXcTest(World, d, version)} :
         Commit(w, [NoCall EXCEPT !.op = "RunXcTest", !.dir = d, !.version = version])

SetEnvVarsCall ==
  \E env_vars \in EnvInputs :
    /\ DOMAIN env_vars # {} => MayGenerate /\ MayAppend
    /\ \E w \in {SetEnvVars(World, env_vars)} :
         Commit(w, [NoCall EXCEPT !.op = "SetEnvVars", !.env_vars = env_vars])

SetArgsCall ==
  \E args \in ArgInputs :
    /\ args # <<>> => MayGenerate /\ MayAppend
    /\ \E w \in {SetArgs(World, args)} :
         Commit(w, [NoCall EXCEPT !.op = "SetArgs", !.args = args])

CloseCall ==
  \E w \in {Close(World)} : Commit(w, [NoCall EXCEPT !.op = "Close"])

Next ==
  \/ GenerateDummyProjectCall
  \/ BuildForTestingCall
  \/ RunXcTestCall
  \/ SetEnvVarsCall
  \/ SetArgsCall
  \/ CloseCall

Spec == Init /\ [][Next]_vars

\* ============================================================== properties
Generated == self.is_dummy_project_generated
Paths(f) == f.dirs \cup DOMAIN f.files
\* The project root, the descriptor path and the scheme path of a harness.
ProjectPaths(s) == <<s.dummy_project_path, s.pbxproj_file_path, TestSchemePath(s)>>
NonEmptySet(call) ==
  \/ call.op = "SetEnvVars" /\ DOMAIN call.env_vars # {}
  \/ call.op = "SetArgs" /\ call.args # <<>>
EmptySet(call) ==
  \/ call.op = "SetEnvVars" /\ DOMAIN call.env_vars = {}
  \/ call.op = "SetArgs" /\ call.args = <<>>
\* The calls that ask for the project to exist.
TriggersGeneration(call, s) ==
  \/ call.op \in {"GenerateDummyProject", "BuildForTesting"}
  \/ call.op = "RunXcTest" /\ s.test_type = XCTEST
  \/ NonEmptySet(call)
\* The tree below root is the same in f and g: same entries, same contents.
SameTree(f, g, root) ==
  /\ {p \in f.dirs : IsPrefix(root, p)} = {p \in g.dirs : IsPrefix(root, p)}
  /\ {p \in DOMAIN f.files : IsPrefix(root, p)} = {p \in DOMAIN g.files : IsPrefix(root, p)}
  /\ \A p \in {q \in DOMAIN f.files : IsPrefix(root, q)} : g.files[p] = f.files[p]
\* The tree below dst in g is a copy of the tree below src in f.
CopyOf(f, src, g, dst) ==
  /\ {p \in g.dirs : IsPrefix(dst, p)} = {Relocate(src, dst, p) : p \in {q \in f.dirs : IsPrefix(src, q)}}
  /\ {p \in DOMAIN g.files : IsPrefix(dst, p)}
       = {Relocate(src, dst, p) : p \in {q \in DOMAIN f.files : IsPrefix(src, q)}}
  /\ \A p \in {q \in DOMAIN f.files : IsPrefix(src, q)} :
       g.files[Relocate(src, dst, p)] = f.files[p]

\* C1: when generation succeeds its body has run exactly once, on the first
\* call that asks for the project (GenerateDummyProject, BuildForTesting,
\* RunXcTest on a unit-test harness, SetEnvVars / SetArgs with a non-empty
\* input); once generated, no later call runs the body again and the project
\* root, the descriptor path and the scheme path never change.
C1_GenerationRunsOnce ==
  /\ [](Generated => genRuns = 1)
  /\ [][/\ (genRuns = 0 /\ TriggersGeneration(last', self)) => genRuns' = 1
        /\ Generated => /\ self'.is_dummy_project_generated
                        /\ genRuns' = genRuns
                        /\ ProjectPaths(self') = ProjectPaths(self)]_vars

\* C1 witness: a generated harness on which two later non-empty scheme calls
\* went through, the body having run once.
C1_Witness ==
  /\ Generated /\ genRuns = 1
  /\ last.op = "SetArgs" /\ last.args # <<>> /\ last.err = NoError
  /\ Len(SchemeContainers(fs, self)) = 2

\* C2: Close deletes only an auto-allocated working directory (the harness
\* was constructed without one), and then exactly that directory's tree; with
\* a caller-supplied working directory it deletes nothing; Close before any
\* generation and a Close right after a Close change nothing.
C2_CloseDeletesOnlyOwnedDir ==
  [][last'.op = "Close" =>
       /\ self' = self /\ installed' = installed /\ genRuns' = genRuns
       /\ last'.err = NoError
       /\ fs' # fs => /\ self.work_dir = TempDir
                      /\ Paths(fs') = Paths(fs) \ Under(fs, TempDir)
                      /\ \A p \in DOMAIN fs'.files : fs'.files[p] = fs.files[p]
       /\ self.work_dir = CallerWorkDir => fs' = fs
       /\ genRuns = 0 => fs' = fs
       /\ last.op = "Close" => fs' = fs]_vars

\* C2 witness: Close on a generated harness with a caller-supplied working
\* directory: the project and the caller's file are still there.
C2_Witness ==
  /\ last.op = "Close" /\ Generated
  /\ self.work_dir = CallerWorkDir
  /\ self.pbxproj_file_path \in DOMAIN fs.files
  /\ CallerFile \in DOMAIN fs.files

\* C3: whenever the build subprocess ran and its captured output lacks the
\* success marker, BuildForTesting ends with the build-failure error carrying
\* that output, whatever the exit status.
C3_BuildFailureForEveryExitStatus ==
  (/\ last.op = "BuildForTesting"
   /\ last.subprocess
   /\ ~Contains(last.output, SIGNAL_BUILD_FOR_TESTING_SUCCEED))
  => (last.err = "BuildFailureError" /\ last.errOutput = last.output)

\* C4: RunXcTest on a UI-test harness raises the invalid-configuration error
\* and does nothing else: no generation, no PlugIns folder, no staging, no
\* test executor.
C4_RunXcTestRejectsUiTest ==
  [][(last'.op = "RunXcTest" /\ self.test_type = XCUITEST) =>
       /\ last'.err = "IllegalArgumentError"
       /\ ~last'.executed
       /\ self' = self /\ fs' = fs /\ installed' = installed /\ genRuns' = genRuns]_vars

\* C4 witness: the call was refused on a UI-test harness that is still
\* ungenerated.
C4_Witness ==
  /\ last.op = "RunXcTest" /\ last.err = "IllegalArgumentError"
  /\ self.test_type = XCUITEST /\ ~Generated /\ genRuns = 0

\* C5: SetEnvVars with an empty map and SetArgs with an empty list change
\* nothing: no generation, no file and no field of the harness.
C5_EmptySetIsNoOp ==
  [][EmptySet(last') =>
       /\ last'.err = NoError
       /\ self' = self /\ fs' = fs /\ installed' = installed /\ genRuns' = genRuns]_vars

\* C5 witness: an empty SetEnvVars on a harness that is still ungenerated.
C5_Witness ==
  /\ last.op = "SetEnvVars" /\ DOMAIN last.env_vars = {}
  /\ ~Generated /\ genRuns = 0

SchemeReadable(f, s) ==
  s.xcodeproj_dir_path # None /\ TestSchemePath(s) \in DOMAIN f.files
TestActionOf(f, s) == f.files[TestSchemePath(s)].TestAction
\* element is the container a call must append: one entry per map entry
\* (key, value, isEnabled = YES), or one per list item (argument, isEnabled).
ContainerFor(element, call) ==
  IF call.op = "SetEnvVars"
  THEN /\ element.tag = "EnvironmentVariables"
       /\ Cardinality(element.entries) = Cardinality(DOMAIN call.env_vars)
       /\ \A k \in DOMAIN call.env_vars :
            \E x \in element.entries :
              /\ x.tag = "EnvironmentVariable" /\ x.key = k
              /\ x.value = call.env_vars[k] /\ x.isEnabled = "YES"
  ELSE /\ element.tag = "CommandLineArguments"
       /\ Len(element.items) = Len(call.args)
       /\ \A i \in 1..Len(call.args) :
            /\ element.items[i].tag = "CommandLineArgument"
            /\ element.items[i].argument = call.args[i]
            /\ element.items[i].isEnabled = "YES"
\* The step appended exactly one container, the one of the call, after the
\* children the TestAction had (those of the shipped scheme when the scheme
\* did not exist yet), and disabled shouldUseLaunchSchemeArgsEnv.
AppendedOne(call) ==
  /\ SchemeReadable(fs', self')
  /\ TestActionOf(fs', self').shouldUseLaunchSchemeArgsEnv = "NO"
  /\ LET had == IF SchemeReadable(fs, self) THEN TestActionOf(fs, self).children
                ELSE TemplateScheme(self.test_scheme).TestAction.children
         has == TestActionOf(fs', self').children
     IN /\ Len(has) = Len(had) + 1
        /\ SubSeq(has, 1, Len(had)) = had
        /\ ContainerFor(has[Len(has)], call)

PbxprojReadable == Generated /\ self.pbxproj_file_path \in DOMAIN fs.files
BuildSettings(config) == fs.files[self.pbxproj_file_path].objects[config].buildSettings
TargetRecord(target) == fs.files[self.pbxproj_file_path].objects[target]
\* The name of the profile embedded in the app under test.
EmbeddedProfileName == fs.files[Join(AppDir, <<<<"embedded", "mobileprovision">>>>)].text

\* C7: UI-test harness, SDK iphoneos, after generation: the test bundle's
\* settings carry the test bundle's bundle id and development team and the
\* profile is installed; with the wildcard profile CODE_SIGN_IDENTITY is
\* 'iPhone Developer' and PROVISIONING_PROFILE_SPECIFIER is as shipped, else
\* CODE_SIGN_IDENTITY is the test bundle's codesign identity and
\* PROVISIONING_PROFILE_SPECIFIER is the profile's name.
C7_XcuitestDeviceSigning ==
  (PbxprojReadable /\ self.test_type = XCUITEST /\ self.sdk = IPHONEOS) =>
    LET bs == BuildSettings("XCUITestBundleBuildConfig")
    IN /\ bs["PRODUCT_BUNDLE_IDENTIFIER"] = GetBundleId(TestBundleDir)
       /\ bs["DEVELOPMENT_TEAM"] = GetDevelopmentTeam(TestBundleDir)
       /\ EmbeddedProfileName \in installed
       /\ IF EmbeddedProfileName = WildcardProfileName
          THEN /\ bs["CODE_SIGN_IDENTITY"] = Literal("iPhone Developer")
               /\ bs["PROVISIONING_PROFILE_SPECIFIER"] = TemplateValue
          ELSE /\ bs["CODE_SIGN_IDENTITY"] = GetCodesignIdentity(TestBundleDir)
               /\ bs["PROVISIONING_PROFILE_SPECIFIER"] = Literal(EmbeddedProfileName)

\* C7 witness: a generated UI-test device harness with the wildcard profile.
C7_Witness ==
  /\ PbxprojReadable /\ self.test_type = XCUITEST /\ self.sdk = IPHONEOS
  /\ EmbeddedProfileName = WildcardProfileName
  /\ last.op = "GenerateDummyProject"

\* C8: SDK iphonesimulator, both test types, after generation: every signing
\* key of every build-settings record is as shipped and no profile is
\* installed; what differs from the shipped descriptor is the deployment
\* target, the project-level name keys and the names of the app target and of
\* the test type's bundle target.
C8_SimulatorLeavesSigningAlone ==
  (PbxprojReadable /\ self.sdk = IPHONESIMULATOR) =>
    /\ installed = {}
    /\ \A c \in BuildConfigs : \A k \in SigningKeys : BuildSettings(c)[k] = TemplateValue
    /\ \A c \in BuildConfigs : \A k \in BuildSettingKeys :
         BuildSettings(c)[k] # TemplateValue =>
           /\ c = "TestProjectBuildConfig"
           /\ k \in {"IPHONEOS_DEPLOYMENT_TARGET", "APP_UNDER_TEST_NAME",
                     IF self.test_type = XCTEST THEN "XCTEST_BUNDLE_NAME"
                     ELSE "XCUITEST_BUNDLE_NAME"}
    /\ BuildSettings("TestProjectBuildConfig")["IPHONEOS_DEPLOYMENT_TARGET"]
         = GetMinimumOSVersion(AppDir)
    /\ \A t \in Targets :
         TargetRecord(t).name # TemplateValue \/ TargetRecord(t).productName # TemplateValue
           => t \in {"AppUnderTestTarget",
                     IF self.test_type = XCTEST THEN "XCTestBundleTarget"
                     ELSE "XCUITestBundleTarget"}

\* C8 witness: a generated unit-test simulator harness, its app target renamed.
C8_Witness ==
  /\ PbxprojReadable /\ self.sdk = IPHONESIMULATOR /\ self.test_type = XCTEST
  /\ TargetRecord("AppUnderTestTarget").name = Literal("App")

\* C9: staging never overwrites.  In every reachable state and for every
\* output directory, staging raises nothing; an entry that exists under the
\* basename of the app or of the test bundle keeps its tree, a missing one
\* becomes a copy of the bundle; and staging again changes nothing.  Every
\* BuildForTesting / RunXcTest step keeps what its output directory held.
C9_StagingNeverOverwrites ==
  /\ [](\A d \in OutDirs :
          \A w1 \in {PrepareBuildProductsDir(World, d)} :
            /\ w1.err = NoError
            /\ \A src \in {AppDir, TestBundleDir} :
                 LET dst == Join(d, <<Basename(src)>>)
                 IN IF Exists(fs, dst) THEN SameTree(fs, w1.fs, dst)
                    ELSE CopyOf(fs, src, w1.fs, dst)
            /\ \A w2 \in {PrepareBuildProductsDir(w1, d)} :
                 w2.err = NoError /\ w2.fs = w1.fs)
  /\ [][last'.op \in {"BuildForTesting", "RunXcTest"} =>
          \A p \in Under(fs, last'.dir) :
            /\ p \in Paths(fs')
            /\ p \in DOMAIN fs.files => fs'.files[p] = fs.files[p]]_vars

\* C9 witness: RunXcTest staged into a directory BuildForTesting had staged
\* into: the app there is still the copy made first, without the PlugIns
\* folder the app under test has since got.
C9_Witness ==
  /\ last.op = "RunXcTest" /\ last.executed
  /\ Join(AppDir, <<<<"PlugIns">>>>) \in fs.dirs
  /\ Join(last.dir, <<Basename(AppDir)>>) \in fs.dirs
  /\ Join(last.dir, <<Basename(AppDir), <<"PlugIns">>>>) \notin fs.dirs
  /\ Join(last.dir, <<Basename(TestBundleDir)>>) \in fs.dirs
  /\ last.dir = <<<<"out">>>>

\* C10: unit-test harness, SDK iphoneos, after generation: with the wildcard
\* profile CODE_SIGN_IDENTITY and DEVELOPMENT_TEAM are the same on the app's
\* and the test bundle's record, the team being the app's; with a specific
\* profile CODE_SIGN_IDENTITY on both is the app's codesign identity and
\* PROVISIONING_PROFILE_SPECIFIER is the profile's name on the app's record
\* and as shipped on the test bundle's.
C10_XctestDeviceSigning ==
  (PbxprojReadable /\ self.test_type = XCTEST /\ self.sdk = IPHONEOS) =>
    LET aut == BuildSettings("AppUnderTestBuildConfig")
        test == BuildSettings("XCTestBundleBuildConfig")
    IN IF EmbeddedProfileName = WildcardProfileName
       THEN /\ aut["CODE_SIGN_IDENTITY"] = test["CODE_SIGN_IDENTITY"]
            /\ aut["CODE_SIGN_IDENTITY"] = Literal("iPhone Developer")
            /\ aut["DEVELOPMENT_TEAM"] = test["DEVELOPMENT_TEAM"]
            /\ aut["DEVELOPMENT_TEAM"] = GetDevelopmentTeam(AppDir)
       ELSE /\ aut["CODE_SIGN_IDENTITY"] = GetCodesignIdentity(AppDir)
            /\ test["CODE_SIGN_IDENTITY"] = GetCodesignIdentity(AppDir)
            /\ aut["PROVISIONING_PROFILE_SPECIFIER"] = Literal(EmbeddedProfileName)
            /\ test["PROVISIONING_PROFILE_SPECIFIER"] = TemplateValue

\* C10 witness: a generated unit-test device harness with a specific profile.
C10_Witness ==
  /\ PbxprojReadable /\ self.test_type = XCTEST /\ self.sdk = IPHONEOS
  /\ EmbeddedProfileName # WildcardProfileName
  /\ BuildSettings("AppUnderTestBuildConfig")["PROVISIONING_PROFILE_SPECIFIER"]
       = Literal(EmbeddedProfileName)

\* C11: whenever RunXcTest on a unit-test harness reaches the test executor
\* with an Xcode version of 730 or above, the app-under-test entry the
\* harness staged in the output directory holds the test bundle under PlugIns,
\* whatever was called before, an earlier BuildForTesting into the same
\* directory included.  (An entry the caller had put there is left out.)
C11_StagedAppHasPlugIns ==
  (/\ last.op = "RunXcTest" /\ last.executed
   /\ last.version >= XcodeVersionThreshold
   /\ Join(last.dir, <<Basename(AppDir)>>) # PrebuiltApp) =>
    Join(last.dir, <<Basename(AppDir), <<"PlugIns">>, Basename(TestBundleDir)>>)
      \in fs.dirs
====
